---- MODULE Spec2Model ----
(***************************************************************************)
(* Model of the search/replace patch engine of src/tools/ApplyDiffTool.ts: *)
(* the helpers levenshteinDistance, getSimilarity, addLineNumbers,         *)
(* everyLineHasLineNumbers and stripLineNumbers, the method                *)
(* SearchReplaceDiffStrategy.applyDiff, and ApplyDiffTool.invoke, which    *)
(* reads the file, calls applyDiff and writes the file.                    *)
(*                                                                         *)
(* A JavaScript string is a sequence of one-character strings.  A          *)
(* similarity score is the exact fraction <<numerator, denominator>>; the  *)
(* thresholds of the model (0, 1/2, 1) are exactly representable doubles,  *)
(* so the comparisons on fractions agree with the comparisons on doubles.  *)
(* A denominator of 0 stands for the NaN of a division 0/0.                *)
(***************************************************************************)
EXTENDS Integers, Sequences, FiniteSets, TLC

\* ------------------------------------------------------------------------
\* Bounds of the model
\* ------------------------------------------------------------------------
MaxDocLines == 2
MaxSearchLines == 2
MaxReplaceLines == 1
MaxStrLen == 3
MaxAnnotLines == 2
MaxTextLen == 3
MaxIndentLines == 2
MaxCrlfLines == 3
MaxSyntaxLines == 2
MaxFileLines == 2
\* the scan window: the lines of a document, the lines of a SEARCH block and
\* the bufferLines the strategy is constructed with
MaxWindowLines == 4
MaxWindowSearch == 2
MaxBuffer == 2
\* calls in sequence on one strategy: the lines of a document, and the
\* length of a result that is passed to a further call
MaxHistoryLines == 2
MaxHistoryText == 3
\* the lines of a document whose failure message is examined
MaxDiagLines == 2
\* the length of the strings levenshteinDistance is called on
MaxEditLen == 3

\* ------------------------------------------------------------------------
\* Characters and strings
\* ------------------------------------------------------------------------
NL == "\n"
CR == "\r"
TAB == "\t"
\* the characters matched by \s that the model uses
WhiteSpace == {" ", TAB, NL, CR}
Digits == {"0", "1", "2", "3", "4", "5", "6", "7", "8", "9"}

Max(x, y) == IF x >= y THEN x ELSE y
Min(x, y) == IF x <= y THEN x ELSE y
Min3(x, y, z) == Min(x, Min(y, z))

\* Array.prototype.slice(from, to) on a 0-based array: the entries with
\* index from .. to-1, clamped to the array (from, to >= 0 here)
Slice(arr, from, to) == SubSeq(arr, from + 1, Min(to, Len(arr)))

\* Array.prototype.join(sep)
RECURSIVE Join(_, _)
Join(lines, sep) ==
    IF lines = <<>> THEN <<>>
    ELSE IF Len(lines) = 1 THEN lines[1]
    ELSE lines[1] \o sep \o Join(Tail(lines), sep)

\* String.prototype.split(/\r?\n/): never the empty array
RECURSIVE SplitFrom(_, _, _)
SplitFrom(text, i, cur) ==
    IF i > Len(text) THEN <<cur>>
    ELSE IF text[i] = NL THEN <<cur>> \o SplitFrom(text, i + 1, <<>>)
    ELSE IF text[i] = CR /\ i < Len(text) /\ text[i + 1] = NL
         THEN <<cur>> \o SplitFrom(text, i + 2, <<>>)
    ELSE SplitFrom(text, i + 1, Append(cur, text[i]))

SplitLines(text) == SplitFrom(text, 1, <<>>)

\* text.startsWith(pat, i - 1), with i 1-based
StartsWithAt(text, i, pat) ==
    /\ i >= 1
    /\ i + Len(pat) - 1 <= Len(text)
    /\ SubSeq(text, i, i + Len(pat) - 1) = pat

\* String.prototype.includes('\r\n')
IncludesCRLF(text) == \E i \in 1..Len(text) : StartsWithAt(text, i, <<CR, NL>>)

\* the length of the match of /^[\t ]*/ or /^\s*/ : the leading run of chars of cls
RECURSIVE LeadingRun(_, _)
LeadingRun(str, cls) ==
    IF str # <<>> /\ str[1] \in cls THEN 1 + LeadingRun(Tail(str), cls) ELSE 0

RECURSIVE TrailingRun(_, _)
TrailingRun(str, cls) ==
    IF str # <<>> /\ str[Len(str)] \in cls
    THEN 1 + TrailingRun(SubSeq(str, 1, Len(str) - 1), cls) ELSE 0

\* String.prototype.trim()
Trim(str) ==
    LET l == LeadingRun(str, WhiteSpace)
    IN IF l = Len(str) THEN <<>>
       ELSE SubSeq(str, l + 1, Len(str) - TrailingRun(str, WhiteSpace))

\* str.replace(/\s+/g, ' ')
RECURSIVE CollapseWhiteSpace(_)
CollapseWhiteSpace(str) ==
    IF str = <<>> THEN <<>>
    ELSE IF str[1] \in WhiteSpace
         THEN <<" ">> \o CollapseWhiteSpace(
                  SubSeq(str, LeadingRun(str, WhiteSpace) + 1, Len(str)))
    ELSE <<str[1]>> \o CollapseWhiteSpace(Tail(str))

\* normalizeStr of getSimilarity
normalizeStr(str) == Trim(CollapseWhiteSpace(str))

\* ------------------------------------------------------------------------
\* levenshteinDistance: the matrix is filled row by row, left to right
\* ------------------------------------------------------------------------
RECURSIVE LevRow(_, _, _, _, _)
\* prev is row i-1 (entries 0..Len(b) at positions 1..Len(b)+1), acc the
\* entries 0..j-1 of row i
LevRow(prev, ai, b, j, acc) ==
    IF j > Len(b) THEN acc
    ELSE LET cell == IF ai = b[j] THEN prev[j]
                     ELSE Min3(prev[j] + 1, acc[j] + 1, prev[j + 1] + 1)
         IN LevRow(prev, ai, b, j + 1, Append(acc, cell))

RECURSIVE LevRows(_, _, _, _)
LevRows(a, b, i, prev) ==
    IF i > Len(a) THEN prev
    ELSE LevRows(a, b, i + 1, LevRow(prev, a[i], b, 1, <<i>>))

\* the matrix without the initialisation of its first row
levenshteinDistance_ZeroFirstRow(a, b) ==
    LevRows(a, b, 1, [j \in 1..(Len(b) + 1) |-> 0])[Len(b) + 1]

levenshteinDistance(a, b) ==
    LevRows(a, b, 1, [j \in 1..(Len(b) + 1) |-> j - 1])[Len(b) + 1]

\* ------------------------------------------------------------------------
\* Similarity scores as fractions
\* ------------------------------------------------------------------------
One == <<1, 1>>
Zero == <<0, 1>>
Half == <<1, 2>>
IsNumber(x) == x[2] > 0
RatGe(x, y) == x[1] * y[2] >= y[1] * x[2]
RatGt(x, y) == x[1] * y[2] > y[1] * x[2]
RatLt(x, y) == x[1] * y[2] < y[1] * x[2]
RatEq(x, y) == x[1] * y[2] = y[1] * x[2]

\* getSimilarity with maxLength taken from the original alone
getSimilarity_OriginalLength(original, search) ==
    IF search = <<>> THEN One
    ELSE LET normalizedOriginal == normalizeStr(original)
             normalizedSearch == normalizeStr(search)
             distance == levenshteinDistance(normalizedOriginal, normalizedSearch)
             maxLength == Len(normalizedOriginal)
         IN IF normalizedOriginal = normalizedSearch THEN One
            ELSE <<maxLength - distance, maxLength>>

\* getSimilarity without the early return for the empty search string
getSimilarity_NoEmptySearch(original, search) ==
    LET normalizedOriginal == normalizeStr(original)
        normalizedSearch == normalizeStr(search)
        distance == levenshteinDistance(normalizedOriginal, normalizedSearch)
        maxLength == Max(Len(normalizedOriginal), Len(normalizedSearch))
    IN IF normalizedOriginal = normalizedSearch THEN One
       ELSE <<maxLength - distance, maxLength>>

\* getSimilarity without the early return for equal normalized strings
getSimilarity_NoEqualReturn(original, search) ==
    IF search = <<>> THEN One
    ELSE LET normalizedOriginal == normalizeStr(original)
             normalizedSearch == normalizeStr(search)
             distance == levenshteinDistance(normalizedOriginal, normalizedSearch)
             maxLength == Max(Len(normalizedOriginal), Len(normalizedSearch))
         IN <<maxLength - distance, maxLength>>

getSimilarity(original, search) ==
    IF search = <<>> THEN One
    ELSE LET normalizedOriginal == normalizeStr(original)
             normalizedSearch == normalizeStr(search)
             distance == levenshteinDistance(normalizedOriginal, normalizedSearch)
             maxLength == Max(Len(normalizedOriginal), Len(normalizedSearch))
         IN IF normalizedOriginal = normalizedSearch THEN One
            ELSE <<maxLength - distance, maxLength>>

\* ------------------------------------------------------------------------
\* The 'lineno | content' annotation
\* ------------------------------------------------------------------------
Drop(str, k) == SubSeq(str, k + 1, Len(str))

\* the rest of the line after the match of /^\s*\d+\s+\|(?!\|)/, as <<rest>>,
\* or <<>> when the line does not match
AfterLineNumber(line) ==
    LET r1 == Drop(line, LeadingRun(line, WhiteSpace))
        d  == LeadingRun(r1, Digits)
        r2 == Drop(r1, d)
        w  == LeadingRun(r2, WhiteSpace)
        r3 == Drop(r2, w)
    IN IF /\ d >= 1
          /\ w >= 1
          /\ r3 # <<>>
          /\ r3[1] = "|"
          /\ ~(Len(r3) >= 2 /\ r3[2] = "|")
       THEN <<Tail(r3)>>
       ELSE <<>>

everyLineHasLineNumbers(content) ==
    LET lines == SplitLines(content)
    IN Len(lines) > 0 /\ \A i \in 1..Len(lines) : AfterLineNumber(lines[i]) # <<>>

\* '.' does not match a line terminator
NoLineTerminator(str) == \A i \in 1..Len(str) : str[i] \notin {NL, CR}

\* line.match(/^\s*\d+\s+\|(?!\|)\s?(.*)$/) : match[1], or the line itself
StripLine(line) ==
    LET m == AfterLineNumber(line)
    IN IF m = <<>> THEN line
       ELSE LET after == m[1]
                rest  == IF after # <<>> /\ after[1] \in WhiteSpace
                         THEN Tail(after) ELSE after
            IN IF NoLineTerminator(rest) THEN rest ELSE line

stripLineNumbers(content) ==
    LET lines == SplitLines(content)
        processedLines == [i \in 1..Len(lines) |-> StripLine(lines[i])]
        lineEnding == IF IncludesCRLF(content) THEN <<CR, NL>> ELSE <<NL>>
    IN Join(processedLines, lineEnding)

\* String(n) for an integer n >= 0
DecimalDigits == <<"0", "1", "2", "3", "4", "5", "6", "7", "8", "9">>
RECURSIVE DecimalString(_)
DecimalString(n) ==
    IF n < 10 THEN <<DecimalDigits[n + 1]>>
    ELSE DecimalString(n \div 10) \o <<DecimalDigits[(n % 10) + 1]>>

\* String.prototype.padStart(width, ' ')
RECURSIVE PadStart(_, _)
PadStart(str, width) ==
    IF Len(str) >= width THEN str ELSE PadStart(<<" ">> \o str, width)

\* String.prototype.split('\n'): never the empty array
RECURSIVE SplitNLFrom(_, _, _)
SplitNLFrom(text, i, cur) ==
    IF i > Len(text) THEN <<cur>>
    ELSE IF text[i] = NL THEN <<cur>> \o SplitNLFrom(text, i + 1, <<>>)
    ELSE SplitNLFrom(text, i + 1, Append(cur, text[i]))

\* the annotation without the space after the pipe
addLineNumbers_NoSpace(content, startLine) ==
    LET lines == SplitNLFrom(content, 1, <<>>)
        maxLineNumberWidth == Len(DecimalString(startLine + Len(lines) - 1))
    IN Join([index \in 1..Len(lines) |->
                PadStart(DecimalString(startLine + index - 1), maxLineNumberWidth)
                    \o <<" ", "|">> \o lines[index]],
            <<NL>>)

addLineNumbers(content, startLine) ==
    LET lines == SplitNLFrom(content, 1, <<>>)
        maxLineNumberWidth == Len(DecimalString(startLine + Len(lines) - 1))
    IN Join([index \in 1..Len(lines) |->
                PadStart(DecimalString(startLine + index - 1), maxLineNumberWidth)
                    \o <<" ", "|", " ">> \o lines[index]],
            <<NL>>)

\* ------------------------------------------------------------------------
\* The marker grammar of applyDiff:
\*   /<<<<<<< SEARCH\n([\s\S]*?)\n?=======\n([\s\S]*?)\n?>>>>>>> REPLACE/
\* ------------------------------------------------------------------------
SearchMarker ==
    <<"<", "<", "<", "<", "<", "<", "<", " ", "S", "E", "A", "R", "C", "H", NL>>
SeparatorMarker == <<"=", "=", "=", "=", "=", "=", "=", NL>>
ReplaceMarker ==
    <<">", ">", ">", ">", ">", ">", ">", " ", "R", "E", "P", "L", "A", "C", "E">>

\* the position after a match of  \n?mark  at position p, or 0 if there is
\* none (the marks do not begin with \n, so at most one alternative matches)
AfterOptNL(text, p, mark) ==
    IF StartsWithAt(text, p, <<NL>> \o mark) THEN p + 1 + Len(mark)
    ELSE IF StartsWithAt(text, p, mark) THEN p + Len(mark)
    ELSE 0

RECURSIVE FirstReplaceLen(_, _, _)
\* the second group may also run to the end of the text, without the marker
FirstReplaceLen_OptionalMarker(text, q, l) ==
    IF q + l > Len(text) + 1 THEN -1
    ELSE IF AfterOptNL(text, q + l, ReplaceMarker) # 0 \/ q + l = Len(text) + 1 THEN l
    ELSE FirstReplaceLen(text, q, l + 1)

\* the least length l' >= l of the second group, starting at q, for which the
\* rest of the pattern matches, or -1
FirstReplaceLen(text, q, l) ==
    IF q + l > Len(text) + 1 THEN -1
    ELSE IF AfterOptNL(text, q + l, ReplaceMarker) # 0 THEN l
    ELSE FirstReplaceLen(text, q, l + 1)

RECURSIVE FirstSearchLen(_, _, _)
\* the least length k' >= k of the first group, starting at g, for which the
\* rest of the pattern matches, or -1
FirstSearchLen(text, g, k) ==
    IF g + k > Len(text) + 1 THEN -1
    ELSE IF LET q == AfterOptNL(text, g + k, SeparatorMarker)
            IN q # 0 /\ FirstReplaceLen(text, q, 0) # -1
         THEN k
    ELSE FirstSearchLen(text, g, k + 1)

RECURSIVE FirstStart(_, _)
\* the least position i' >= i at which the pattern matches, or 0
FirstStart(text, i) ==
    IF i > Len(text) THEN 0
    ELSE IF /\ StartsWithAt(text, i, SearchMarker)
            /\ FirstSearchLen(text, i + Len(SearchMarker), 0) # -1
         THEN i
    ELSE FirstStart(text, i + 1)

\* diffContent.match(...): the leftmost match, both groups lazy
DiffMatch(diffContent) ==
    LET start == FirstStart(diffContent, 1)
    IN IF start = 0 THEN [matched |-> FALSE]
       ELSE LET g == start + Len(SearchMarker)
                k == FirstSearchLen(diffContent, g, 0)
                q == AfterOptNL(diffContent, g + k, SeparatorMarker)
                l == FirstReplaceLen(diffContent, q, 0)
            IN [matched |-> TRUE,
                searchContent |-> SubSeq(diffContent, g, g + k - 1),
                replaceContent |-> SubSeq(diffContent, q, q + l - 1)]

\* ------------------------------------------------------------------------
\* Inputs of the model
\* ------------------------------------------------------------------------
\* the lines documents are made of: a blank line, a line and an indented line
LineSet == {<<>>, <<"a">>, <<" ", "b">>}
\* the lines SEARCH blocks and REPLACE blocks are made of
SearchLineSet == {<<>>, <<"a">>}
ReplaceLineSet == {<<"b">>}

RECURSIVE SeqsUpTo(_, _)
\* the sequences over S of length at most n
SeqsUpTo(S, n) ==
    IF n = 0 THEN {<<>>}
    ELSE LET shorter == SeqsUpTo(S, n - 1)
         IN shorter \cup {Append(q, x) : q \in shorter, x \in S}

\* a document has at least one line
Docs == SeqsUpTo(LineSet, MaxDocLines) \ {<<>>}
SearchBlocks == SeqsUpTo(SearchLineSet, MaxSearchLines)
ReplaceBlocks == SeqsUpTo(ReplaceLineSet, MaxReplaceLines)

\* an optional number: <<>> is undefined, <<n>> is the number n
Undefined == <<>>
Hints == {Undefined} \cup {<<n>> : n \in 0..(MaxDocLines + 1)}
\* JavaScript truthiness of an optional number
Truthy(h) == h # Undefined /\ h[1] # 0

Thresholds == {Zero, Half, One}
BUFFER_LINES == 20

\* the diff text a caller writes for a SEARCH block and a REPLACE block given
\* as lines: every line of a block is followed by \n
RECURSIVE WriteLines(_)
WriteLines(lines) ==
    IF lines = <<>> THEN <<>> ELSE lines[1] \o <<NL>> \o WriteLines(Tail(lines))

WriteDiff(search, replace) ==
    SearchMarker \o WriteLines(search) \o SeparatorMarker
        \o WriteLines(replace) \o ReplaceMarker

\* ------------------------------------------------------------------------
\* State
\* ------------------------------------------------------------------------
VARIABLES
    fuzzyThreshold,     \* SearchReplaceDiffStrategy.fuzzyThreshold
    bufferLines,        \* SearchReplaceDiffStrategy.bufferLines
    pc,                 \* "idle", "scan" (in the while loop), "finish", "done"
    originalContent,    \* arguments of applyDiff
    diffContent,
    startLine,
    endLine,
    searchBlock,        \* the lines the caller wrote between the markers
    replaceBlock,
    searchLines,        \* locals of applyDiff
    replaceLines,
    originalLines,
    matchIndex,
    bestMatchScore,
    bestMatchContent,
    searchStartIndex,
    searchEndIndex,
    leftIndex,
    rightIndex,
    probes,             \* history: the start indices scored by the scan, in order
    result,             \* the DiffResult returned
    details,            \* the values embedded in the message of a
                        \* no-sufficient-match failure
    previous,           \* history: the arguments and the result of the call
                        \* that returned last
    levA,               \* arguments of a direct call of levenshteinDistance
    levB,
    levReturned,        \* whether that call has returned
    levDistance,        \* its return value
    simOriginal,        \* arguments of a direct call of getSimilarity
    simSearch,
    simReturned,        \* whether that call has returned
    simScore,           \* its return value
    lnContent,          \* arguments of a direct call of addLineNumbers
    lnStartLine,
    lnReturned,         \* whether that call has returned
    lnNumbered,         \* its return value
    toolPc,             \* ApplyDiffTool.invoke: "idle", "readFile", "applyDiff",
                        \* "writeFile", "resolved"
    toolInput,          \* options.input: diff, start_line, end_line (and, as
                        \* history, the blocks the diff was written from)
    workspaceFolder,    \* whether vscode.workspace.workspaceFolders[0] exists
    file,               \* the content of the file at fullPath
    toolResult,         \* the text of the LanguageModelToolResult
    writes,             \* history: the contents passed to fs.writeFile, in order
    fileBefore          \* history: the file when invoke was called

args == <<originalContent, diffContent, startLine, endLine, searchBlock, replaceBlock>>
locals == <<searchLines, replaceLines, originalLines, matchIndex, bestMatchScore,
            bestMatchContent, searchStartIndex, searchEndIndex, leftIndex, rightIndex>>
config == <<fuzzyThreshold, bufferLines>>
simVars == <<simOriginal, simSearch, simReturned, simScore>>
lnVars == <<lnContent, lnStartLine, lnReturned, lnNumbered>>
toolVars == <<toolPc, toolInput, workspaceFolder, file, toolResult, writes, fileBefore>>
levVars == <<levA, levB, levReturned, levDistance>>
vars == <<config, pc, args, locals, probes, result, details, previous,
          simVars, lnVars, levVars, toolVars>>

NoResult == [kind |-> "none"]
Failure(error) == [kind |-> "failure", success |-> FALSE, error |-> error]
Success(content) == [kind |-> "success", success |-> TRUE, content |-> content]
NoDetails == [kind |-> "none"]
NoPrevious == [kind |-> "none"]

Idle ==
    /\ pc = "idle"
    /\ originalContent = <<>> /\ diffContent = <<>>
    /\ startLine = Undefined /\ endLine = Undefined
    /\ searchBlock = <<>> /\ replaceBlock = <<>>
    /\ searchLines = <<>> /\ replaceLines = <<>> /\ originalLines = <<>>
    /\ matchIndex = -1 /\ bestMatchScore = Zero /\ bestMatchContent = <<>>
    /\ searchStartIndex = 0 /\ searchEndIndex = 0
    /\ leftIndex = 0 /\ rightIndex = 0
    /\ probes = <<>>
    /\ result = NoResult
    /\ details = NoDetails

SimIdle ==
    /\ simOriginal = <<>> /\ simSearch = <<>>
    /\ simReturned = FALSE
    /\ simScore = Zero

LnIdle ==
    /\ lnContent = <<>> /\ lnStartLine = 1
    /\ lnReturned = FALSE
    /\ lnNumbered = <<>>

LevIdle ==
    /\ levA = <<>> /\ levB = <<>>
    /\ levReturned = FALSE
    /\ levDistance = 0

NoInput == [diff |-> <<>>, start_line |-> Undefined, end_line |-> Undefined,
            blocks |-> <<<<>>, <<>>>>]

ToolIdle ==
    /\ toolPc = "idle"
    /\ toolInput = NoInput
    /\ workspaceFolder = TRUE
    /\ file = <<>>
    /\ toolResult = "none"
    /\ writes = <<>>
    /\ fileBefore = <<>>

\* new SearchReplaceDiffStrategy(fuzzyThreshold?, bufferLines?)
Init ==
    /\ fuzzyThreshold \in Thresholds
    /\ bufferLines = BUFFER_LINES
    /\ Idle
    /\ SimIdle
    /\ LnIdle
    /\ LevIdle
    /\ previous = NoPrevious
    /\ ToolIdle

\* ------------------------------------------------------------------------
\* applyDiff: the conditions and the pure parts
\* ------------------------------------------------------------------------
\* searchContent === '' ? [] : searchContent.split(/\r?\n/)
BlockLines(content) == IF content = <<>> THEN <<>> ELSE SplitLines(content)

\* the annotation is stripped as soon as one block carries it on every line
StripBoth_Either(searchContent, replaceContent) ==
    everyLineHasLineNumbers(searchContent) \/ everyLineHasLineNumbers(replaceContent)

\* the annotation is stripped from both blocks or from neither
StripBoth(searchContent, replaceContent) ==
    everyLineHasLineNumbers(searchContent) /\ everyLineHasLineNumbers(replaceContent)

\* searchLines.length === 0 && !startLine
EmptySearchWithoutStart(sLines, sl) == Len(sLines) = 0 /\ ~Truthy(sl)

\* searchLines.length === 0 && startLine && endLine && startLine !== endLine
EmptySearchWithRange(sLines, sl, el) ==
    Len(sLines) = 0 /\ Truthy(sl) /\ Truthy(el) /\ sl[1] # el[1]

\* if (startLine && endLine)
HintGiven(sl, el) == Truthy(sl) /\ Truthy(el)

RangeInvalid(exactStartIndex, exactEndIndex, lineCount) ==
    \/ exactStartIndex < 0
    \/ exactEndIndex >= lineCount
    \/ exactStartIndex > exactEndIndex

\* the hinted check with a strict comparison
HintAccepts_Strict(similarity, threshold) == RatGt(similarity, threshold)

\* similarity >= this.fuzzyThreshold
HintAccepts(similarity, threshold) == RatGe(similarity, threshold)

\* similarity > bestMatchScore
Improves(similarity, best) == RatGt(similarity, best)

\* matchIndex === -1 || bestMatchScore < this.fuzzyThreshold
Rejects(index, best, threshold) == index = -1 \/ RatLt(best, threshold)

\* a window that starts one line later
FallbackStart_OffByOne(sl, buffer) == Max(0, sl - buffer)

\* Math.max(0, startLine - (this.bufferLines + 1))
FallbackStart(sl, buffer) == Max(0, sl - (buffer + 1))
FallbackEnd(el, buffer, lineCount) == Min(lineCount, el + buffer)

MidPoint(sStart, sEnd) == (sStart + sEnd) \div 2

\* a condition that forgets the length of the SEARCH block on the right
LoopCond_WholeWindow(left, right, sStart, sEnd, n) == left >= sStart \/ right <= sEnd

\* the condition of the while loop
LoopCond(left, right, sStart, sEnd, n) == left >= sStart \/ right <= sEnd - n

\* originalLines.slice(i, i + searchLines.length).join('\n')
ChunkAt(oLines, i, n) == Join(Slice(oLines, i, i + n), <<NL>>)

\* line.match(/^[\t ]*/)[0]
IndentOf(line) == SubSeq(line, 1, LeadingRun(line, {TAB, " "}))

\* indents[0] || ''
FirstIndent(lines) == IF lines = <<>> THEN <<>> ELSE IndentOf(lines[1])

\* the callback without the branch of the less indented lines
IndentReplaceLine_NoTruncation(line, matchedIndent, searchBaseIndent) ==
    LET currentIndent == IndentOf(line)
        searchBaseLevel == Len(searchBaseIndent)
        finalIndent == matchedIndent \o Drop(currentIndent, searchBaseLevel)
    IN finalIndent \o Trim(line)

\* the callback of replaceLines.map
IndentReplaceLine(line, matchedIndent, searchBaseIndent) ==
    LET currentIndent == IndentOf(line)
        searchBaseLevel == Len(searchBaseIndent)
        currentLevel == Len(currentIndent)
        relativeLevel == currentLevel - searchBaseLevel
        finalIndent ==
            IF relativeLevel < 0
            THEN SubSeq(matchedIndent, 1, Max(0, Len(matchedIndent) + relativeLevel))
            ELSE matchedIndent \o Drop(currentIndent, searchBaseLevel)
    IN finalIndent \o Trim(line)

IndentedReplaceLines(oLines, sLines, rLines, index) ==
    LET matchedLines == Slice(oLines, index, index + Len(sLines))
    IN [i \in 1..Len(rLines) |->
           IndentReplaceLine(rLines[i], FirstIndent(matchedLines), FirstIndent(sLines))]

BeforeMatch(oLines, index) == Slice(oLines, 0, index)
AfterMatch(oLines, index, n) == Slice(oLines, index + n, Len(oLines))

\* the lines of the final content
SplicedLines(oLines, sLines, rLines, index) ==
    BeforeMatch(oLines, index)
        \o IndentedReplaceLines(oLines, sLines, rLines, index)
        \o AfterMatch(oLines, index, Len(sLines))

LineEnding(content) == IF IncludesCRLF(content) THEN <<CR, NL>> ELSE <<NL>>

\* ------------------------------------------------------------------------
\* applyDiff: the steps
\* ------------------------------------------------------------------------
\* a failure that carries the original content
ReturnFailure_WithContent(error) ==
    /\ pc' = "done"
    /\ result' = [kind |-> "failure", success |-> FALSE, error |-> error,
                  content |-> originalContent']
    /\ UNCHANGED <<matchIndex, bestMatchScore, bestMatchContent,
                   searchStartIndex, searchEndIndex, leftIndex, rightIndex>>

\* an early return of a failure
ReturnFailure(error) ==
    /\ pc' = "done"
    /\ result' = Failure(error)
    /\ UNCHANGED <<matchIndex, bestMatchScore, bestMatchContent,
                   searchStartIndex, searchEndIndex, leftIndex, rightIndex>>

\* the entry of the middle-out search over the window [sStart, sEnd)
EnterScan(sStart, sEnd, n) ==
    LET midPoint == MidPoint(sStart, sEnd)
    IN /\ searchStartIndex' = sStart
       /\ searchEndIndex' = sEnd
       /\ leftIndex' = midPoint
       /\ rightIndex' = midPoint + 1
       /\ pc' = IF LoopCond(midPoint, midPoint + 1, sStart, sEnd, n)
                THEN "scan" ELSE "finish"
       /\ result' = NoResult
       /\ UNCHANGED <<matchIndex, bestMatchScore, bestMatchContent>>

\* the hinted exact check, for hints that are both given
HintedCheck(oLines, sLines, sl, el) ==
    LET exactStartIndex == sl - 1
        exactEndIndex == el - 1
    IN IF RangeInvalid(exactStartIndex, exactEndIndex, Len(oLines))
       THEN ReturnFailure("Line range is invalid")
       ELSE \E originalChunk \in
                   {Join(Slice(oLines, exactStartIndex, exactEndIndex + 1), <<NL>>)} :
            \E similarity \in {getSimilarity(originalChunk, Join(sLines, <<NL>>))} :
               IF HintAccepts(similarity, fuzzyThreshold)
               THEN /\ matchIndex' = exactStartIndex
                    /\ bestMatchScore' = similarity
                    /\ bestMatchContent' = originalChunk
                    /\ pc' = "finish"
                    /\ result' = NoResult
                    /\ UNCHANGED <<searchStartIndex, searchEndIndex,
                                   leftIndex, rightIndex>>
               ELSE EnterScan(FallbackStart(sl, bufferLines),
                              FallbackEnd(el, bufferLines, Len(oLines)),
                              Len(sLines))

\* applyDiff after the match of the marker grammar, up to the while loop
AfterMatchOfMarkers(searchContent, replaceContent, oLines, sl, el) ==
    \E sLines \in {BlockLines(searchContent)} :
       /\ searchLines' = sLines
       /\ replaceLines' = BlockLines(replaceContent)
       /\ originalLines' = oLines
       /\ IF EmptySearchWithoutStart(sLines, sl)
          THEN ReturnFailure("Empty search content requires start_line")
          ELSE IF EmptySearchWithRange(sLines, sl, el)
          THEN ReturnFailure("Empty search content requires start_line and end_line to be the same")
          ELSE IF HintGiven(sl, el)
          THEN HintedCheck(oLines, sLines, sl[1], el[1])
          ELSE EnterScan(0, Len(oLines), Len(sLines))

\* applyDiff up to the while loop: the marker grammar, the annotation, the
\* line split, the checks of the hints and the hinted exact check
ApplyDiffOn(content, diff, sb, rb, sl, el) ==
    /\ pc = "idle"
    /\ originalContent' = content
    /\ diffContent' = diff
    /\ startLine' = sl
    /\ endLine' = el
    /\ searchBlock' = sb
    /\ replaceBlock' = rb
    /\ probes' = <<>>
    /\ UNCHANGED <<config, details, previous, simVars, lnVars, levVars>>
    /\ \E m \in {DiffMatch(diff)} :
          IF ~m.matched
          THEN /\ ReturnFailure("Invalid diff format")
               /\ UNCHANGED <<searchLines, replaceLines, originalLines>>
          ELSE \E strip \in {StripBoth(m.searchContent, m.replaceContent)} :
                  AfterMatchOfMarkers(
                      IF strip THEN stripLineNumbers(m.searchContent)
                      ELSE m.searchContent,
                      IF strip THEN stripLineNumbers(m.replaceContent)
                      ELSE m.replaceContent,
                      SplitLines(content), sl, el)

\* applyDiff called by a caller of the strategy, on a document given as lines
\* and a diff text written from the lines of the two blocks
ApplyDiff(doc, sb, rb, sl, el) ==
    /\ ApplyDiffOn(Join(doc, <<NL>>), WriteDiff(sb, rb), sb, rb, sl, el)
    /\ UNCHANGED toolVars

\* the state of the scan after a probe at index i, from the state
\* best = <<matchIndex, bestMatchScore, bestMatchContent>>
Probe(active, i, best) ==
    IF ~active THEN best
    ELSE LET chunk == ChunkAt(originalLines, i, Len(searchLines))
             similarity == getSimilarity(chunk, Join(searchLines, <<NL>>))
         IN IF Improves(similarity, best[2]) THEN <<i, similarity, chunk>> ELSE best

\* one iteration of the while loop: the probe on the left, then on the right
ScanStep ==
    /\ pc = "scan"
    /\ \E n \in {Len(searchLines)} :
       \E leftActive \in {leftIndex >= searchStartIndex} :
       \E rightActive \in {rightIndex <= searchEndIndex - n} :
       \E best1 \in {Probe(leftActive, leftIndex,
                           <<matchIndex, bestMatchScore, bestMatchContent>>)} :
       \E best2 \in {Probe(rightActive, rightIndex, best1)} :
          /\ matchIndex' = best2[1]
          /\ bestMatchScore' = best2[2]
          /\ bestMatchContent' = best2[3]
          /\ leftIndex' = IF leftActive THEN leftIndex - 1 ELSE leftIndex
          /\ rightIndex' = IF rightActive THEN rightIndex + 1 ELSE rightIndex
          /\ probes' = probes \o (IF leftActive THEN <<leftIndex>> ELSE <<>>)
                              \o (IF rightActive THEN <<rightIndex>> ELSE <<>>)
          /\ pc' = IF LoopCond(leftIndex', rightIndex', searchStartIndex, searchEndIndex, n)
                   THEN "scan" ELSE "finish"
    /\ UNCHANGED <<config, args, searchLines, replaceLines, originalLines,
                   searchStartIndex, searchEndIndex, result, details, previous,
                   simVars, lnVars, levVars,
                   toolVars>>

\* Math.floor(x * 100) for a fraction x >= 0
Percent(x) == (x[1] * 100) \div x[2]

NoMatchText == <<"(", "n", "o", " ", "m", "a", "t", "c", "h", ")">>

\* the excerpt of the original in the message: the hinted lines and the
\* buffer around them if both hints are defined, the whole document otherwise
OriginalContentSection(oLines, sl, el, buffer) ==
    IF sl # Undefined /\ el # Undefined
    THEN addLineNumbers(
             Join(Slice(oLines, Max(0, sl[1] - 1 - buffer),
                        Min(Len(oLines), el[1] + buffer)), <<NL>>),
             Max(1, sl[1] - buffer))
    ELSE addLineNumbers(Join(oLines, <<NL>>), 1)

\* the values the message of the no-sufficient-match failure is built from
Diagnostics ==
    [kind |-> "diagnostics",
     similarity |-> Percent(bestMatchScore),
     threshold |-> Percent(fuzzyThreshold),
     searchContent |-> addLineNumbers(Join(searchLines, <<NL>>), 1),
     bestMatch |-> IF bestMatchContent # <<>>
                   THEN addLineNumbers(bestMatchContent, matchIndex + 1)
                   ELSE NoMatchText,
     originalContent |-> OriginalContentSection(originalLines, startLine, endLine,
                                                bufferLines)]

\* a gate that lowers the threshold of the strategy to the best score it
\* has rejected
Finish_AdaptsThreshold ==
    /\ pc = "finish"
    /\ pc' = "done"
    /\ result' = IF Rejects(matchIndex, bestMatchScore, fuzzyThreshold)
                 THEN Failure("No sufficiently similar match found")
                 ELSE Success(Join(SplicedLines(originalLines, searchLines,
                                                replaceLines, matchIndex),
                                   LineEnding(originalContent)))
    /\ details' = IF Rejects(matchIndex, bestMatchScore, fuzzyThreshold)
                  THEN Diagnostics ELSE NoDetails
    /\ fuzzyThreshold' = IF Rejects(matchIndex, bestMatchScore, fuzzyThreshold)
                         THEN bestMatchScore ELSE fuzzyThreshold
    /\ UNCHANGED <<bufferLines, args, locals, probes, previous, simVars, lnVars,
                   levVars, toolVars>>

\* the threshold gate and the splice
Finish ==
    /\ pc = "finish"
    /\ pc' = "done"
    /\ result' = IF Rejects(matchIndex, bestMatchScore, fuzzyThreshold)
                 THEN Failure("No sufficiently similar match found")
                 ELSE Success(Join(SplicedLines(originalLines, searchLines,
                                                replaceLines, matchIndex),
                                   LineEnding(originalContent)))
    /\ details' = IF Rejects(matchIndex, bestMatchScore, fuzzyThreshold)
                  THEN Diagnostics ELSE NoDetails
    /\ UNCHANGED <<config, args, locals, probes, previous, simVars, lnVars,
                   levVars, toolVars>>

\* the caller takes the result; the strategy is ready for the next call.
\* prev is what the history keeps of the call
ReturnTo(prev) ==
    /\ pc = "done"
    /\ pc' = "idle"
    /\ originalContent' = <<>> /\ diffContent' = <<>>
    /\ startLine' = Undefined /\ endLine' = Undefined
    /\ searchBlock' = <<>> /\ replaceBlock' = <<>>
    /\ searchLines' = <<>> /\ replaceLines' = <<>> /\ originalLines' = <<>>
    /\ matchIndex' = -1 /\ bestMatchScore' = Zero /\ bestMatchContent' = <<>>
    /\ searchStartIndex' = 0 /\ searchEndIndex' = 0
    /\ leftIndex' = 0 /\ rightIndex' = 0
    /\ probes' = <<>>
    /\ result' = NoResult
    /\ details' = NoDetails
    /\ previous' = prev
    /\ UNCHANGED <<config, simVars, lnVars, levVars, toolVars>>

Return == ReturnTo(previous)

\* a caller invokes applyDiff on the idle strategy
Call ==
    /\ pc = "idle"
    /\ \E doc \in Docs, sb \in SearchBlocks, rb \in ReplaceBlocks,
          sl \in Hints, el \in Hints : ApplyDiff(doc, sb, rb, sl, el)

Next ==
    \/ Call
    \/ ScanStep
    \/ Finish
    \/ Return

Spec == Init /\ [][Next]_vars

TypeOK ==
    /\ pc \in {"idle", "scan", "finish", "done"}
    /\ matchIndex \in -1..MaxDocLines
    /\ IsNumber(bestMatchScore)

\* ------------------------------------------------------------------------
\* applyDiff on blocks copied from a line-numbered file view
\* ------------------------------------------------------------------------
\* the annotations of the lines 9 and 10 of a file view, and the contents
AnnotPrefixes == {<<" ", "9", " ", "|", " ">>, <<"1", "0", " ", "|", " ">>}
AnnotContentSet == {<<"a">>, <<" ", "b">>}
\* the lines of the blocks: two contents as they are, and two annotated
AnnotLineSet ==
    AnnotContentSet \cup {<<" ", "9", " ", "|", " ", "a">>,
                          <<"1", "0", " ", "|", " ", " ", "b">>}
AnnotBlocks == SeqsUpTo(AnnotLineSet, MaxAnnotLines)
AnnotDocs == {<<<<"a">>>>, <<<<"a">>, <<" ", "b">>>>}

\* new SearchReplaceDiffStrategy(): the defaults
InitDefault ==
    /\ fuzzyThreshold = One
    /\ bufferLines = BUFFER_LINES
    /\ Idle
    /\ SimIdle
    /\ LnIdle
    /\ LevIdle
    /\ previous = NoPrevious
    /\ ToolIdle

CallAnnot ==
    /\ pc = "idle"
    /\ \E doc \in AnnotDocs, sb \in AnnotBlocks, rb \in AnnotBlocks :
          ApplyDiff(doc, sb, rb, Undefined, Undefined)

NextAnnot ==
    \/ CallAnnot
    \/ ScanStep
    \/ Finish
    \/ Return

SpecAnnot == InitDefault /\ [][NextAnnot]_vars

\* ------------------------------------------------------------------------
\* applyDiff on lines that differ in their indentation
\* ------------------------------------------------------------------------
\* indentations of 0, 1 and 2 characters, of spaces and tabs
Indents == {<<>>, <<" ">>, <<TAB, " ">>}
IndentDocLineSet == {ind \o <<"a">> : ind \in Indents}
IndentSearchLineSet == {ind \o <<"a">> : ind \in Indents}
\* the last character of a REPLACE line is a trailing space
IndentReplaceLineSet == {ind \o <<"b", " ">> : ind \in Indents}
IndentDocs == SeqsUpTo(IndentDocLineSet, MaxIndentLines) \ {<<>>}
IndentSearchBlocks == SeqsUpTo(IndentSearchLineSet, MaxIndentLines) \ {<<>>}
IndentReplaceBlocks == SeqsUpTo(IndentReplaceLineSet, MaxIndentLines)

CallIndent ==
    /\ pc = "idle"
    /\ \E doc \in IndentDocs, sb \in IndentSearchBlocks, rb \in IndentReplaceBlocks :
          ApplyDiff(doc, sb, rb, Undefined, Undefined)

NextIndent ==
    \/ CallIndent
    \/ ScanStep
    \/ Finish
    \/ Return

SpecIndent == InitDefault /\ [][NextIndent]_vars

\* ------------------------------------------------------------------------
\* applyDiff on documents with \n, \r\n or mixed line endings
\* ------------------------------------------------------------------------
Terminators == {<<NL>>, <<CR, NL>>}
CrlfLineSet == {<<"a">>, <<"b">>}
RECURSIVE TextsOfLines(_)
\* the texts of n lines, each line but the last followed by a terminator
TextsOfLines(n) ==
    IF n = 1 THEN CrlfLineSet
    ELSE {t \o term \o line :
              t \in TextsOfLines(n - 1), term \in Terminators, line \in CrlfLineSet}
CrlfTexts == UNION {TextsOfLines(n) : n \in 1..MaxCrlfLines}
CrlfSearchBlocks == {<<<<"a">>>>, <<<<"b">>>>}
CrlfReplaceBlocks == {<<>>, <<<<"x">>>>}

CallCrlf ==
    /\ pc = "idle"
    /\ \E content \in CrlfTexts, sb \in CrlfSearchBlocks, rb \in CrlfReplaceBlocks :
          /\ ApplyDiffOn(content, WriteDiff(sb, rb), sb, rb, Undefined, Undefined)
          /\ UNCHANGED toolVars

NextCrlf ==
    \/ CallCrlf
    \/ ScanStep
    \/ Finish
    \/ Return

SpecCrlf == InitDefault /\ [][NextCrlf]_vars

\* ------------------------------------------------------------------------
\* applyDiff on diff texts with and without the three markers
\* ------------------------------------------------------------------------
SyntaxDocs == SeqsUpTo({<<"a">>, <<"b">>}, MaxSyntaxLines) \ {<<>>}
SyntaxSearchBlocks == {<<>>, <<<<"a">>>>, <<<<"c">>>>}
SyntaxReplaceBlocks == {<<>>, <<<<"x">>>>}
\* no hints, a range in every document, an inverted range, a range beyond
\* every document, and a start line alone
SyntaxHints ==
    {<<Undefined, Undefined>>, <<<<1>>, <<1>>>>, <<<<2>>, <<1>>>>,
     <<<<MaxSyntaxLines + 1>>, <<MaxSyntaxLines + 1>>>>, <<<<1>>, Undefined>>}

\* the diff texts a caller writes for two blocks: the well-formed one, one
\* marker absent, the markers out of order, one marker a character short, and
\* the empty text
DiffTexts(sb, rb) ==
    LET S == SearchMarker
        E == SeparatorMarker
        R == ReplaceMarker
        s == WriteLines(sb)
        r == WriteLines(rb)
    IN {S \o s \o E \o r \o R,
        s \o E \o r \o R,
        S \o s \o r \o R,
        S \o s \o E \o r,
        E \o S \o s \o r \o R,
        S \o s \o R \o <<NL>> \o E \o r,
        Tail(S) \o s \o E \o r \o R,
        S \o s \o Tail(E) \o r \o R,
        S \o s \o E \o r \o SubSeq(R, 1, Len(R) - 1),
        <<>>}

CallSyntax ==
    /\ pc = "idle"
    /\ \E doc \in SyntaxDocs, sb \in SyntaxSearchBlocks, rb \in SyntaxReplaceBlocks,
          h \in SyntaxHints :
          \E diff \in DiffTexts(sb, rb) :
             /\ ApplyDiffOn(Join(doc, <<NL>>), diff, sb, rb, h[1], h[2])
             /\ UNCHANGED toolVars

NextSyntax ==
    \/ CallSyntax
    \/ ScanStep
    \/ Finish
    \/ Return

SpecSyntax == InitDefault /\ [][NextSyntax]_vars

\* ------------------------------------------------------------------------
\* ApplyDiffTool.invoke: the file is read, applyDiff is called, and the file
\* is written
\* ------------------------------------------------------------------------
ToolFiles == {<<"a">>, <<"a", NL, "b">>}
ToolSearchBlocks == {<<>>, <<<<"a">>>>, <<<<"c">>>>}
ToolReplaceBlocks == {<<>>, <<<<"x">>>>, <<<<"a">>>>}
ToolHints == {<<Undefined, Undefined>>, <<<<1>>, <<1>>>>}
\* the well-formed diff text and the one without the separator
ToolDiffTexts(sb, rb) ==
    {WriteDiff(sb, rb),
     SearchMarker \o WriteLines(sb) \o WriteLines(rb) \o ReplaceMarker}
ToolInputsOf(sb, rb) ==
    {[diff |-> diff, start_line |-> h[1], end_line |-> h[2], blocks |-> <<sb, rb>>] :
        diff \in ToolDiffTexts(sb, rb), h \in ToolHints}
ToolInputs ==
    UNION {ToolInputsOf(sb, rb) : sb \in ToolSearchBlocks, rb \in ToolReplaceBlocks}

\* new ApplyDiffTool(), on a workspace that holds the file
InitInvoke ==
    /\ fuzzyThreshold = One
    /\ bufferLines = BUFFER_LINES
    /\ Idle
    /\ SimIdle
    /\ LnIdle
    /\ LevIdle
    /\ previous = NoPrevious
    /\ toolPc = "idle"
    /\ toolInput = NoInput
    /\ workspaceFolder = TRUE
    /\ file \in ToolFiles
    /\ toolResult = "none"
    /\ writes = <<>>
    /\ fileBefore = file

\* invoke up to the await of fs.readFile; files of more than MaxFileLines
\* lines are not patched any more
Invoke(input, folder) ==
    /\ toolPc = "idle"
    /\ pc = "idle"
    /\ Len(SplitLines(file)) <= MaxFileLines
    /\ toolInput' = input
    /\ workspaceFolder' = folder
    /\ fileBefore' = file
    /\ writes' = <<>>
    /\ IF folder
       THEN toolPc' = "readFile" /\ toolResult' = "none"
       ELSE toolPc' = "resolved" /\ toolResult' = "Failed to apply diff"
    /\ UNCHANGED <<config, pc, args, locals, probes, result, details, previous,
                   simVars, lnVars, levVars, file>>

\* fs.readFile resolves and applyDiff is called on the content
ReadFileResolves ==
    /\ toolPc = "readFile"
    /\ toolPc' = "applyDiff"
    /\ ApplyDiffOn(file, toolInput.diff, toolInput.blocks[1], toolInput.blocks[2],
                   toolInput.start_line, toolInput.end_line)
    /\ UNCHANGED <<toolInput, workspaceFolder, file, toolResult, writes, fileBefore>>

\* fs.readFile rejects: the catch block
ReadFileRejects ==
    /\ toolPc = "readFile"
    /\ toolPc' = "resolved"
    /\ toolResult' = "Failed to apply diff"
    /\ UNCHANGED <<config, pc, args, locals, probes, result, details, previous,
                   simVars, lnVars, levVars,
                   toolInput, workspaceFolder, file, writes, fileBefore>>

\* the file is written whatever applyDiff returned
AfterApplyDiff_WriteAnyway ==
    /\ toolPc = "applyDiff"
    /\ pc = "done"
    /\ toolPc' = "writeFile"
    /\ writes' = Append(writes, IF result.kind = "success" THEN result.content
                                ELSE <<>>)
    /\ UNCHANGED <<config, pc, args, locals, probes, result, details, previous,
                   simVars, lnVars, levVars,
                   toolInput, workspaceFolder, file, toolResult, fileBefore>>

\* applyDiff has returned: a failure is thrown into the catch block, a success
\* goes on to fs.writeFile
AfterApplyDiff ==
    /\ toolPc = "applyDiff"
    /\ pc = "done"
    /\ IF result.kind = "failure"
       THEN /\ toolPc' = "resolved"
            /\ toolResult' = "Failed to apply diff"
            /\ writes' = writes
       ELSE /\ toolPc' = "writeFile"
            /\ toolResult' = toolResult
            /\ writes' = Append(writes, result.content)
    /\ UNCHANGED <<config, pc, args, locals, probes, result, details, previous,
                   simVars, lnVars, levVars,
                   toolInput, workspaceFolder, file, fileBefore>>

\* fs.writeFile resolves
WriteFileResolves ==
    /\ toolPc = "writeFile"
    /\ file' = writes[Len(writes)]
    /\ toolPc' = "resolved"
    /\ toolResult' = "Successfully applied diff"
    /\ UNCHANGED <<config, pc, args, locals, probes, result, details, previous,
                   simVars, lnVars, levVars,
                   toolInput, workspaceFolder, writes, fileBefore>>

\* fs.writeFile rejects and leaves the file as it was: the catch block
WriteFileRejects ==
    /\ toolPc = "writeFile"
    /\ toolPc' = "resolved"
    /\ toolResult' = "Failed to apply diff"
    /\ UNCHANGED <<config, pc, args, locals, probes, result, details, previous,
                   simVars, lnVars, levVars,
                   toolInput, workspaceFolder, file, writes, fileBefore>>

\* the caller takes the LanguageModelToolResult; the tool is ready for the
\* next invocation
ToolReturn ==
    /\ toolPc = "resolved"
    /\ toolPc' = "idle"
    /\ toolInput' = NoInput
    /\ toolResult' = "none"
    /\ writes' = <<>>
    /\ fileBefore' = file
    /\ pc' = "idle"
    /\ originalContent' = <<>> /\ diffContent' = <<>>
    /\ startLine' = Undefined /\ endLine' = Undefined
    /\ searchBlock' = <<>> /\ replaceBlock' = <<>>
    /\ searchLines' = <<>> /\ replaceLines' = <<>> /\ originalLines' = <<>>
    /\ matchIndex' = -1 /\ bestMatchScore' = Zero /\ bestMatchContent' = <<>>
    /\ searchStartIndex' = 0 /\ searchEndIndex' = 0
    /\ leftIndex' = 0 /\ rightIndex' = 0
    /\ probes' = <<>>
    /\ result' = NoResult
    /\ details' = NoDetails
    /\ UNCHANGED <<config, previous, simVars, lnVars, levVars, workspaceFolder, file>>

ToolCall ==
    /\ toolPc = "idle"
    /\ \E input \in ToolInputs, folder \in BOOLEAN : Invoke(input, folder)

NextInvoke ==
    \/ ToolCall
    \/ ReadFileResolves
    \/ ReadFileRejects
    \/ ScanStep
    \/ Finish
    \/ AfterApplyDiff
    \/ WriteFileResolves
    \/ WriteFileRejects
    \/ ToolReturn

SpecInvoke == InitInvoke /\ [][NextInvoke]_vars

\* ------------------------------------------------------------------------
\* getSimilarity called on its own, on all strings of a bounded length
\* ------------------------------------------------------------------------
SimAlphabet == {"a", "b", " ", NL}
SimStrings == SeqsUpTo(SimAlphabet, MaxStrLen)

GetSimilarityCall(a, b) ==
    /\ simOriginal' = a
    /\ simSearch' = b
    /\ simReturned' = TRUE
    /\ simScore' = getSimilarity(a, b)
    /\ UNCHANGED <<config, pc, args, locals, probes, result, details, previous,
                   lnVars, levVars, toolVars>>

InitSim ==
    /\ fuzzyThreshold = One
    /\ bufferLines = BUFFER_LINES
    /\ Idle
    /\ SimIdle
    /\ LnIdle
    /\ LevIdle
    /\ previous = NoPrevious
    /\ ToolIdle

\* the caller takes the score
GetSimilarityReturn ==
    /\ simReturned
    /\ simOriginal' = <<>> /\ simSearch' = <<>>
    /\ simReturned' = FALSE
    /\ simScore' = Zero
    /\ UNCHANGED <<config, pc, args, locals, probes, result, details, previous,
                   lnVars, levVars, toolVars>>

SimCall ==
    /\ ~simReturned
    /\ \E a \in SimStrings, b \in SimStrings : GetSimilarityCall(a, b)

NextSim == SimCall \/ GetSimilarityReturn

SpecSim == InitSim /\ [][NextSim]_vars

\* ------------------------------------------------------------------------
\* addLineNumbers called on its own, on all LF-separated texts of a bounded
\* length: letters, spaces, digits, pipes and \n, no carriage return
\* ------------------------------------------------------------------------
TextAlphabet == {"a", " ", "|", "1", NL}
Texts == SeqsUpTo(TextAlphabet, MaxTextLen)
\* start numbers with one and two digits, and one whose successor is wider
StartLines == {1, 9, 10}

AddLineNumbersCall(t, k) ==
    /\ lnContent' = t
    /\ lnStartLine' = k
    /\ lnReturned' = TRUE
    /\ lnNumbered' = addLineNumbers(t, k)
    /\ UNCHANGED <<config, pc, args, locals, probes, result, details, previous,
                   simVars, levVars, toolVars>>

\* the caller takes the numbered text
AddLineNumbersReturn ==
    /\ lnReturned
    /\ lnContent' = <<>> /\ lnStartLine' = 1
    /\ lnReturned' = FALSE
    /\ lnNumbered' = <<>>
    /\ UNCHANGED <<config, pc, args, locals, probes, result, details, previous,
                   simVars, levVars, toolVars>>

LnCall ==
    /\ ~lnReturned
    /\ \E t \in Texts, k \in StartLines : AddLineNumbersCall(t, k)

NextLn == LnCall \/ AddLineNumbersReturn

SpecLn == InitDefault /\ [][NextLn]_vars

\* ------------------------------------------------------------------------
\* Vocabulary of the properties
\* ------------------------------------------------------------------------
Returned == pc = "done"
Succeeded == Returned /\ result.kind = "success"
Failed == Returned /\ result.kind = "failure"
FailedWith(error) == Failed /\ result.error = error

\* the document as the caller sees it, and the hints as numbers
DocLines == SplitLines(originalContent)
Supplied(h) == h # Undefined
BothSupplied == Supplied(startLine) /\ Supplied(endLine)
ValidRange == BothSupplied /\ 1 <= startLine[1] /\ startLine[1] <= endLine[1]
                /\ endLine[1] <= Len(DocLines)

\* the score of the run of searchLines.length lines (fewer at the end of the
\* document) that starts at the 0-based index i
WindowScore(i) ==
    getSimilarity(ChunkAt(originalLines, i, Len(searchLines)), Join(searchLines, <<NL>>))
\* the start indices of the runs of exactly searchLines.length lines
FullStarts == {i \in 0..Len(originalLines) : i + Len(searchLines) <= Len(originalLines)}
\* the score of the hinted lines startLine..endLine
HintedScore ==
    getSimilarity(Join(SubSeq(DocLines, startLine[1], endLine[1]), <<NL>>),
                  Join(searchLines, <<NL>>))

\* ------------------------------------------------------------------------
\* Properties
\* ------------------------------------------------------------------------
\* C1: round trip on exact hints.  With threshold 1.0, a valid range
\* (startLine, endLine) and a SEARCH block made of the document's lines at that
\* range, applyDiff succeeds and the result is the lines before the range, the
\* REPLACE lines, and the lines after the range.
C1_RoundTrip ==
    (/\ Returned
     /\ fuzzyThreshold = One
     /\ ValidRange
     /\ searchBlock = SubSeq(DocLines, startLine[1], endLine[1]))
    => /\ result.kind = "success"
       /\ result.content =
              Join(SubSeq(DocLines, 1, startLine[1] - 1)
                       \o replaceBlock
                       \o SubSeq(DocLines, endLine[1] + 1, Len(DocLines)),
                   <<NL>>)

\* C2: best qualifying candidate.  Without hints and with a non-empty SEARCH,
\* applyDiff succeeds exactly if some run of searchLines.length document lines
\* scores at least the threshold; the replaced run then has the maximal score
\* of all such runs; otherwise the failure is the no-sufficient-match one.
C2_BestQualifying ==
    (/\ Returned
     /\ startLine = Undefined /\ endLine = Undefined
     /\ searchLines # <<>>)
    => /\ result.kind = "success"
            <=> \E i \in FullStarts : RatGe(WindowScore(i), fuzzyThreshold)
       /\ result.kind = "success"
            => /\ matchIndex \in FullStarts
               /\ \A i \in FullStarts : RatGe(WindowScore(matchIndex), WindowScore(i))
       /\ result.kind = "failure"
            => result.error = "No sufficiently similar match found"

\* C3: threshold gate.  Whenever applyDiff succeeds, the replaced lines
\* originalLines[matchIndex, matchIndex + searchLines.length) score at least
\* the threshold against SEARCH.
C3_ThresholdGate ==
    Succeeded => RatGe(WindowScore(matchIndex), fuzzyThreshold)

\* C4, as claimed: getSimilarity(a, b) = getSimilarity(b, a) for all strings,
\* the empty string included.
C4_Symmetric ==
    simReturned => RatEq(simScore, getSimilarity(simSearch, simOriginal))

\* exactly one argument is the empty string and the other one has a character
\* that is not white space
OneSidedEmpty ==
    \/ simSearch = <<>> /\ normalizeStr(simOriginal) # <<>>
    \/ simOriginal = <<>> /\ normalizeStr(simSearch) # <<>>

\* C4, amended: getSimilarity(a, b) = getSimilarity(b, a) unless exactly one of
\* a and b is the empty string and the other has a non-white-space character.
C4_SymmetricUnlessOneSidedEmpty ==
    (simReturned /\ ~OneSidedEmpty)
    => RatEq(simScore, getSimilarity(simSearch, simOriginal))

\* C4 witness: two different non-empty strings of different lengths with a
\* score strictly between 0 and 1
C4_Witness ==
    /\ simReturned
    /\ simOriginal # <<>> /\ simSearch # <<>>
    /\ Len(simOriginal) # Len(simSearch)
    /\ RatGt(simScore, Zero) /\ RatLt(simScore, One)

\* C5: similarity fixed points.  A string scores 1.0 against itself, every
\* content scores 1.0 against the empty search string, and two strings equal
\* after white-space normalization score 1.0.
C5_FixedPoints ==
    (/\ simReturned
     /\ \/ simOriginal = simSearch
        \/ simSearch = <<>>
        \/ normalizeStr(simOriginal) = normalizeStr(simSearch))
    => simScore = One

\* C5 witness: content with a letter scored against the empty search string
C5_Witness ==
    /\ simReturned
    /\ simSearch = <<>>
    /\ normalizeStr(simOriginal) # <<>>
    /\ simScore = One

\* C6: the score is a number v with 0 <= v <= 1; the divisor max(len, len) is
\* never 0.
C6_Bounded ==
    simReturned => /\ IsNumber(simScore)
                   /\ 0 <= simScore[1]
                   /\ simScore[1] <= simScore[2]

\* C6 witness: two different white-space-only strings, whose normalized forms
\* both have length 0
C6_Witness ==
    /\ simReturned
    /\ simSearch # <<>> /\ simOriginal # <<>> /\ simOriginal # simSearch
    /\ normalizeStr(simOriginal) = <<>> /\ normalizeStr(simSearch) = <<>>
    /\ IsNumber(simScore)

\* the hints are in bounds and the hinted lines score at least the threshold
HintedRangeQualifies ==
    Returned /\ ValidRange /\ RatGe(HintedScore, fuzzyThreshold)

\* an empty SEARCH with two different hints
EmptySearchRange == searchLines = <<>> /\ BothSupplied /\ startLine[1] # endLine[1]

\* C7, as claimed: if both hints are given and in bounds and the hinted lines
\* score at least the threshold, the match start is startLine - 1 and the
\* middle-out scan is not entered.
C7_HintedFastPath ==
    HintedRangeQualifies => matchIndex = startLine[1] - 1 /\ probes = <<>>

\* C7, amended: the same, unless SEARCH is empty and startLine # endLine; then
\* the consistency failure is returned, also without a scan.
C7_HintedFastPathUnlessEmptyRange ==
    HintedRangeQualifies
    => /\ probes = <<>>
       /\ IF EmptySearchRange
          THEN FailedWith("Empty search content requires start_line and end_line to be the same")
          ELSE Succeeded /\ matchIndex = startLine[1] - 1

\* C7 witness: the hinted range is accepted although a run elsewhere in the
\* document scores strictly higher
C7_Witness ==
    /\ HintedRangeQualifies
    /\ Succeeded
    /\ searchLines # <<>>
    /\ matchIndex = startLine[1] - 1
    /\ \E i \in FullStarts : i # matchIndex /\ RatGt(WindowScore(i), HintedScore)

\* C8: hint bounds error.  If both hints are supplied as integers and
\* startLine < 1, endLine > line count or startLine > endLine, applyDiff
\* fails, and with the 'Line range ... is invalid' failure when SEARCH is not
\* empty (an empty SEARCH is checked for its own hint consistency first).
C8_HintBoundsError ==
    (/\ Returned
     /\ BothSupplied
     /\ \/ startLine[1] < 1
        \/ endLine[1] > Len(DocLines)
        \/ startLine[1] > endLine[1])
    => /\ result.kind = "failure"
       /\ searchLines # <<>> => result.error = "Line range is invalid"

\* C9: empty-SEARCH hint consistency.  With a zero-line SEARCH, applyDiff
\* fails if no startLine is supplied and fails if both hints are supplied and
\* differ; it succeeds only with a startLine and no other endLine.
C9_EmptySearchHints ==
    (Returned /\ searchLines = <<>>)
    => /\ ~Supplied(startLine) => result.kind = "failure"
       /\ (BothSupplied /\ startLine[1] # endLine[1]) => result.kind = "failure"
       /\ result.kind = "success"
            => /\ Supplied(startLine)
               /\ Supplied(endLine) => startLine[1] = endLine[1]

\* C10: pure insertion position.  A success with a zero-line SEARCH and a
\* startLine is the zero-length match at index startLine - 1 with score 1.0:
\* the lines before startLine, the REPLACE lines, then the lines from
\* startLine on, whether endLine is supplied or not.
C10_PureInsertion ==
    (Succeeded /\ searchLines = <<>> /\ Supplied(startLine))
    => /\ matchIndex = startLine[1] - 1
       /\ RatEq(bestMatchScore, One)
       /\ result.content =
              Join(Slice(DocLines, 0, startLine[1] - 1)
                       \o replaceBlock
                       \o Slice(DocLines, startLine[1] - 1, Len(DocLines)),
                   <<NL>>)

\* the line carries a 'lineno | ' annotation in front of a content
Carries(line) == \E p \in AnnotPrefixes, c \in AnnotContentSet : line = p \o c
ContentOf(line) ==
    CHOOSE c \in AnnotContentSet : \E p \in AnnotPrefixes : line = p \o c
\* the block has a line, and every line of it carries the annotation
FullyAnnotated(block) == block # <<>> /\ \A i \in 1..Len(block) : Carries(block[i])
Contents(block) == [i \in 1..Len(block) |-> ContentOf(block[i])]

\* C11: the stripping of the annotation is all-or-nothing.  The lines applyDiff
\* works on are the contents of the SEARCH and REPLACE lines, without their
\* annotations, exactly when every line of both blocks carries the annotation;
\* otherwise (one block only fully annotated, the other empty or raw) both
\* blocks are used as they were written.
C11_AllOrNothing ==
    Returned =>
        LET both == FullyAnnotated(searchBlock) /\ FullyAnnotated(replaceBlock)
        IN /\ searchLines = (IF both THEN Contents(searchBlock) ELSE searchBlock)
           /\ replaceLines = (IF both THEN Contents(replaceBlock) ELSE replaceBlock)

\* a fully annotated SEARCH block and an empty REPLACE block: the SEARCH lines
\* keep their annotations
C11_Witness ==
    /\ Returned
    /\ FullyAnnotated(searchBlock)
    /\ replaceBlock = <<>>
    /\ searchLines = searchBlock
    /\ Len(searchLines) = 2

\* C12: round trip of the line numbers.  For every LF-separated text t (no
\* carriage return) and every start number k >= 1, every line of
\* addLineNumbers(t, k) carries the annotation and stripLineNumbers gives t
\* back, leading indentation included.
C12_LineNumberRoundTrip ==
    lnReturned =>
        /\ everyLineHasLineNumbers(lnNumbered)
        /\ stripLineNumbers(lnNumbered) = lnContent

\* two lines numbered 9 and 10, the first one indented
C12_Witness ==
    /\ lnReturned
    /\ lnStartLine = 9
    /\ lnContent = <<" ", "a", NL>>
    /\ lnNumbered = <<" ", "9", " ", "|", " ", " ", "a", NL, "1", "0", " ", "|", " ">>
    /\ stripLineNumbers(lnNumbered) = lnContent

\* C13: the line split never drops an empty line.  The lines applyDiff works on
\* are the lines of the document and the lines the caller wrote in the SEARCH
\* and REPLACE blocks, the empty ones included: a block that is one blank line
\* has one line.
C13_NoLineDropped ==
    Returned =>
        /\ originalLines = SplitLines(originalContent)
        /\ Len(searchLines) = Len(searchBlock)
        /\ Len(replaceLines) = Len(replaceBlock)

\* the indentations the reconciliation works on, after a success
MatchedIndent == IndentOf(originalLines[matchIndex + 1])
SearchBaseIndent == IndentOf(searchLines[1])
RelativeLevel(i) == Len(IndentOf(replaceLines[i])) - Len(SearchBaseIndent)
\* matchedIndent without its last k characters, empty if it is shorter
WithoutLast(indent, k) ==
    IF Len(indent) <= k THEN <<>> ELSE SubSeq(indent, 1, Len(indent) - k)
\* currentIndent without its first k characters
WithoutFirst(indent, k) ==
    IF Len(indent) <= k THEN <<>> ELSE SubSeq(indent, k + 1, Len(indent))
ReconciledIndent(i) ==
    IF RelativeLevel(i) < 0
    THEN WithoutLast(MatchedIndent, 0 - RelativeLevel(i))
    ELSE MatchedIndent \o WithoutFirst(IndentOf(replaceLines[i]), Len(SearchBaseIndent))

\* C14: indentation reconciliation.  After a success with a SEARCH block of at
\* least one line, the output line of every REPLACE line is an indent followed
\* by the trimmed content of the line; the indent is the indentation of the
\* first matched line without its last |relativeLevel| characters when the
\* REPLACE line is less indented than the first SEARCH line, and otherwise that
\* indentation followed by the REPLACE line's indentation beyond the length of
\* the first SEARCH line's.
C14_IndentReconciliation ==
    (Succeeded /\ searchLines # <<>>) =>
        \A i \in 1..Len(replaceLines) :
            SplitLines(result.content)[matchIndex + i]
                = ReconciledIndent(i) \o Trim(replaceLines[i])

\* a match indented by two characters, a SEARCH block indented by one, and two
\* REPLACE lines: one less indented than the SEARCH block, one more
C14_Witness ==
    /\ Succeeded
    /\ searchLines # <<>>
    /\ Len(replaceLines) = 2
    /\ Len(MatchedIndent) = 2
    /\ Len(SearchBaseIndent) = 1
    /\ RelativeLevel(1) = -1
    /\ RelativeLevel(2) = 1
    /\ SplitLines(result.content)[matchIndex + 1] = <<TAB, "b">>
    /\ SplitLines(result.content)[matchIndex + 2] = <<TAB, " ", " ", "b">>

\* C15: reassembly frame.  After a success with match start m and n SEARCH
\* lines, the matched range [m, m+n) lies in the document, so that exactly n
\* original lines are removed, and the output is the original lines before m,
\* one output line per REPLACE line, and the original lines from m+n on,
\* unmodified and in order.
C15_ReassemblyFrame ==
    Succeeded =>
        LET m == matchIndex
            n == Len(searchLines)
            count == Len(originalLines)
        IN /\ m >= 0
           /\ m + n <= count
           /\ result.content =
                  Join(SubSeq(originalLines, 1, m)
                           \o IndentedReplaceLines(originalLines, searchLines,
                                                   replaceLines, m)
                           \o SubSeq(originalLines, m + n + 1, count),
                       LineEnding(originalContent))

RECURSIVE NextNL(_, _)
\* the position of the first \n of the text at or after pos, or Len(text) + 1
NextNL(text, pos) ==
    IF pos > Len(text) THEN Len(text) + 1
    ELSE IF text[pos] = NL THEN pos
    ELSE NextNL(text, pos + 1)
RECURSIVE LineStart(_, _, _)
\* the position of the first character of the line that comes i lines after
\* the line beginning at pos
LineStart(text, pos, i) ==
    IF i = 0 THEN pos ELSE LineStart(text, NextNL(text, pos) + 1, i - 1)
\* the position after the last character of the 0-based line i, its
\* terminator excluded
LineEnd(text, i) ==
    LET q == NextNL(text, LineStart(text, 1, i))
    IN IF q <= Len(text) /\ q > 1 /\ text[q - 1] = CR THEN q - 1 ELSE q
\* the bytes of the 0-based lines 0..m-1 with the terminators between them
BytesBefore(text, m) ==
    IF m = 0 THEN <<>> ELSE SubSeq(text, 1, LineEnd(text, m - 1) - 1)
\* the bytes of the lines from the 0-based line k on, with their terminators
BytesFrom(text, k) == SubSeq(text, LineStart(text, 1, k), Len(text))
EndsWith(text, suffix) ==
    /\ Len(suffix) <= Len(text)
    /\ SubSeq(text, Len(text) - Len(suffix) + 1, Len(text)) = suffix

\* C16: line-ending preservation.  After a success whose matched range
\* [m, m+n) lies in the document, the regions outside the range are
\* byte-identical in the output, terminators included: the output begins with
\* the bytes of the lines before m and ends with the bytes of the lines from
\* m+n on, whether the document is LF-only, CRLF-only or mixed.
C16_LineEndingPreserved ==
    (Succeeded /\ matchIndex + Len(searchLines) <= Len(originalLines)) =>
        /\ StartsWithAt(result.content, 1, BytesBefore(originalContent, matchIndex))
        /\ EndsWith(result.content,
                    BytesFrom(originalContent, matchIndex + Len(searchLines)))

\* the messages of the four classes of failure
FailureMessages ==
    {"Invalid diff format",
     "Line range is invalid",
     "Empty search content requires start_line",
     "Empty search content requires start_line and end_line to be the same",
     "No sufficiently similar match found"}

\* C17: failures are values.  Every call of applyDiff returns a discriminated
\* result; a failure of any of the four classes (syntax, hint validity, hint
\* consistency, no sufficient match) has success = false, an error string and
\* no content, and a success has a content and no error.
C17_FailuresAreValues ==
    Returned =>
        \/ /\ result.kind = "failure"
           /\ DOMAIN result = {"kind", "success", "error"}
           /\ result.success = FALSE
           /\ result.error \in FailureMessages
        \/ /\ result.kind = "success"
           /\ DOMAIN result = {"kind", "success", "content"}
           /\ result.success = TRUE

\* a no-sufficient-match failure after a scan of a two-line document
C17_Witness ==
    /\ FailedWith("No sufficiently similar match found")
    /\ Len(probes) = 2
    /\ "content" \notin DOMAIN result

\* the text holds '<<<<<<< SEARCH\n', later '=======\n' and later
\* '>>>>>>> REPLACE'
ContainsMarkerSequence(text) ==
    \E i \in 1..Len(text) :
        /\ StartsWithAt(text, i, SearchMarker)
        /\ \E j \in (i + Len(SearchMarker))..Len(text) :
              /\ StartsWithAt(text, j, SeparatorMarker)
              /\ \E k \in (j + Len(SeparatorMarker))..Len(text) :
                    StartsWithAt(text, k, ReplaceMarker)

\* C19: syntax error.  If the diff text does not hold the three markers in
\* order (one is absent, out of order or malformed), applyDiff returns the
\* 'Invalid diff format' failure, whatever the hints and the document, before
\* any validation of the hints and before any matching.
C19_SyntaxError ==
    (Returned /\ ~ContainsMarkerSequence(diffContent)) =>
        /\ FailedWith("Invalid diff format")
        /\ probes = <<>>
        /\ matchIndex = -1
        /\ originalLines = <<>>

\* the separator is absent and the hinted range is inverted
C19_Witness ==
    /\ FailedWith("Invalid diff format")
    /\ diffContent = SearchMarker \o WriteLines(searchBlock)
                          \o WriteLines(replaceBlock) \o ReplaceMarker
    /\ searchBlock # <<>>
    /\ startLine = <<2>> /\ endLine = <<1>>

\* invoke has resolved
Resolved == toolPc = "resolved"
\* applyDiff was not called: there is no workspace folder or the read failed
NotApplied == Resolved /\ pc = "idle"
\* applyDiff returned a failure
ApplyFailed == Resolved /\ pc = "done" /\ result.kind = "failure"

\* C18: nothing is persisted on failure.  In an invocation fs.writeFile is
\* called at most once, only after the read has completed and applyDiff has
\* returned a success, and with exactly the content of that success; the file
\* only changes to that content.  Without a workspace folder, after a failed
\* read or after a failure of applyDiff, nothing is written, the file is as it
\* was, and invoke resolves with the 'Failed to apply diff' result.
C18_NothingPersistedOnFailure ==
    /\ Len(writes) <= 1
    /\ writes # <<>> =>
          /\ toolPc \in {"writeFile", "resolved"}
          /\ originalContent = fileBefore
          /\ pc = "done" /\ result.kind = "success"
          /\ writes[1] = result.content
    /\ file # fileBefore => (writes # <<>> /\ file = writes[1])
    /\ (NotApplied \/ ApplyFailed) =>
          /\ writes = <<>>
          /\ file = fileBefore
          /\ toolResult = "Failed to apply diff"

\* applyDiff has scanned the file that was read and returned the
\* no-sufficient-match failure; invoke has resolved
C18_Witness ==
    /\ ApplyFailed
    /\ originalContent = file
    /\ probes # <<>>
    /\ result.error = "No sufficiently similar match found"
    /\ writes = <<>>
    /\ toolResult = "Failed to apply diff"

RECURSIVE BruteForceBest(_, _, _)
\* the reference scan: the best score of the starts i, i+1, ... with
\* i + searchLines.length <= e, from the best score so far
BruteForceBest(i, e, best) ==
    IF i + Len(searchLines) > e THEN best
    ELSE BruteForceBest(i + 1, e,
                        IF RatGt(WindowScore(i), best) THEN WindowScore(i) ELSE best)
\* the scan has run to its end
Scanned == pc \in {"finish", "done"} /\ probes # <<>>

\* C20: the middle-out scan equals the exhaustive scan.  When the scan of the
\* window [searchStartIndex, searchEndIndex) has ended, its best score is the
\* best score of the brute-force scan of the starts i with
\* searchStartIndex <= i and i + n <= searchEndIndex, and it has no candidate
\* exactly when the brute-force scan has none.
C20_ScanEqualsExhaustive ==
    Scanned =>
        LET brute == BruteForceBest(searchStartIndex, searchEndIndex, Zero)
        IN /\ RatEq(bestMatchScore, brute)
           /\ (matchIndex = -1) <=> RatEq(brute, Zero)

\* ------------------------------------------------------------------------
\* applyDiff of a strategy constructed with a small bufferLines, on
\* documents longer than the window
\* ------------------------------------------------------------------------
WindowLineSet == {<<"a">>, <<"b">>}
WindowDocs == SeqsUpTo(WindowLineSet, MaxWindowLines) \ {<<>>}
WindowSearchBlocks == SeqsUpTo(WindowLineSet, MaxWindowSearch)
WindowReplaceBlocks == {<<<<"x">>>>}
WindowHints == {Undefined} \cup {<<n>> : n \in 1..MaxWindowLines}
WindowBuffers == 0..MaxBuffer

\* new SearchReplaceDiffStrategy(1.0, bufferLines)
InitWindow ==
    /\ fuzzyThreshold = One
    /\ bufferLines \in WindowBuffers
    /\ Idle
    /\ SimIdle
    /\ LnIdle
    /\ LevIdle
    /\ previous = NoPrevious
    /\ ToolIdle

CallWindow ==
    /\ pc = "idle"
    /\ \E doc \in WindowDocs, sb \in WindowSearchBlocks, rb \in WindowReplaceBlocks,
          sl \in WindowHints, el \in WindowHints : ApplyDiff(doc, sb, rb, sl, el)

NextWindow ==
    \/ CallWindow
    \/ ScanStep
    \/ Finish
    \/ Return

SpecWindow == InitWindow /\ [][NextWindow]_vars

\* the distance between two indices
Distance(i, j) == IF i >= j THEN i - j ELSE j - i
\* the start indices of the runs of searchLines.length lines that lie inside
\* the search window
WindowStarts ==
    {i \in searchStartIndex..searchEndIndex : i + Len(searchLines) <= searchEndIndex}
\* the index the scan is centred on by its contract: the hinted start, or
\* the centre of the document
HintedIndex ==
    IF HintGiven(startLine, endLine) THEN startLine[1] - 1
    ELSE MidPoint(0, Len(originalLines))
\* the scan has chosen the match that is replaced
ScanSucceeded == Succeeded /\ probes # <<>>

\* C21: locality tie-break.  When the scan has chosen a window, no window
\* of the search window with the same score starts nearer to the hinted
\* start index (to the centre of the document without hints).
C21_NearestOfEquals ==
    ScanSucceeded =>
        \A j \in WindowStarts :
            RatEq(WindowScore(j), bestMatchScore)
                => Distance(matchIndex, HintedIndex) <= Distance(j, HintedIndex)

\* C22: the fallback window is never narrower than the hint.  When the
\* hinted check has handed off to the scan, the search window contains the
\* indices startLine-1 .. endLine-1, and startLine-1 has been probed if the
\* SEARCH block has no more lines than the hinted range.
C22_WindowContainsHint ==
    (Scanned /\ HintGiven(startLine, endLine)) =>
        /\ searchStartIndex = Max(0, startLine[1] - bufferLines - 1)
        /\ searchEndIndex = Min(Len(originalLines), endLine[1] + bufferLines)
        /\ \A i \in (startLine[1] - 1)..(endLine[1] - 1) :
              searchStartIndex <= i /\ i < searchEndIndex
        /\ Len(searchLines) <= endLine[1] - startLine[1] + 1
              => \E k \in 1..Len(probes) : probes[k] = startLine[1] - 1

\* the scan after a failed check of the range 3..4 of a document of four
\* lines, with no buffer: the window is the hinted range, its start is probed
C22_Witness ==
    /\ Scanned
    /\ bufferLines = 0
    /\ startLine = <<3>> /\ endLine = <<4>>
    /\ Len(originalLines) = 4
    /\ Len(searchLines) = 2
    /\ searchStartIndex = 2 /\ searchEndIndex = 4
    /\ \E k \in 1..Len(probes) : probes[k] = 2

\* the starts of the runs inside the search window that are identical to
\* the SEARCH block
IdenticalRuns ==
    {i \in WindowStarts : Slice(originalLines, i, i + Len(searchLines)) = searchLines}
\* the starts of the runs inside the search window whose normalized text is
\* the normalized text of the SEARCH block
NormalizedRuns ==
    {i \in WindowStarts :
        normalizeStr(ChunkAt(originalLines, i, Len(searchLines)))
            = normalizeStr(Join(searchLines, <<NL>>))}

\* C23: drift recovery.  With a valid hint whose range scores below the
\* threshold 1.0 and a run identical to SEARCH inside the search window,
\* applyDiff succeeds with score 1.0, and if that run is the only one of the
\* window with the normalized text of SEARCH, it is the run replaced.
C23_DriftRecovery ==
    (Returned /\ ValidRange /\ fuzzyThreshold = One /\ RatLt(HintedScore, One)
       /\ IdenticalRuns # {}) =>
        /\ Succeeded
        /\ RatEq(bestMatchScore, One)
        /\ \A i \in IdenticalRuns : NormalizedRuns = {i} => matchIndex = i

\* ------------------------------------------------------------------------
\* calls in sequence on one strategy: a call on fresh arguments, and a call
\* of the diff of the call before on the content that call returned
\* ------------------------------------------------------------------------
HistoryDocs == SeqsUpTo({<<"a">>}, MaxHistoryLines) \ {<<>>}
HistorySearchBlocks == {<<<<"a">>>>, <<<<"a", "b">>>>}
HistoryReplaceBlocks == {<<<<" ", "a">>>>, <<<<"b">>>>}
HistoryHints == {Undefined, <<1>>}

CallHistory ==
    /\ pc = "idle"
    /\ \E doc \in HistoryDocs, sb \in HistorySearchBlocks,
          rb \in HistoryReplaceBlocks, sl \in HistoryHints, el \in HistoryHints :
          ApplyDiff(doc, sb, rb, sl, el)

\* the caller passes the content a successful call returned to a call with
\* the same diff and the same hints
Reapply ==
    /\ pc = "idle"
    /\ previous # NoPrevious
    /\ previous.result.kind = "success"
    /\ Len(previous.result.content) <= MaxHistoryText
    /\ ApplyDiffOn(previous.result.content, previous.args[2],
                   previous.args[5], previous.args[6],
                   previous.args[3], previous.args[4])
    /\ UNCHANGED toolVars

\* the caller takes the result; the history keeps the arguments, the result
\* and the configuration of the strategy at that moment
ReturnRecorded ==
    ReturnTo([kind |-> "call", args |-> args, result |-> result, config |-> config])

NextHistory ==
    \/ CallHistory
    \/ Reapply
    \/ ScanStep
    \/ Finish
    \/ ReturnRecorded

SpecHistory == InitDefault /\ [][NextHistory]_vars

\* the call that has returned is a call of the diff and the hints of the
\* call before, on the content that call returned
Reapplied ==
    /\ Returned
    /\ previous # NoPrevious
    /\ previous.result.kind = "success"
    /\ originalContent = previous.result.content
    /\ diffContent = previous.args[2]
    /\ startLine = previous.args[3] /\ endLine = previous.args[4]

\* C24: idempotence under re-application.  A patch that succeeded with the
\* result D', applied again with the same hints to D', leaves the text D':
\* a re-application that succeeds returns D'.
C24_Idempotent ==
    (Reapplied /\ result.kind = "success") => result.content = previous.result.content

\* the call that has returned has the arguments of the call before
Repeated ==
    /\ Returned
    /\ previous # NoPrevious
    /\ originalContent = previous.args[1]
    /\ diffContent = previous.args[2]
    /\ startLine = previous.args[3] /\ endLine = previous.args[4]

\* C26: no hidden state.  The configuration is the one the call before left,
\* which is the one of the construction, and a call with the arguments of
\* the call before returns the result of the call before.
C26_NoHiddenState ==
    /\ config = <<One, BUFFER_LINES>>
    /\ previous # NoPrevious => previous.config = config
    /\ Repeated => result = previous.result

\* a call that failed on the threshold, repeated: it fails again
C26_Witness ==
    /\ Repeated
    /\ probes # <<>>
    /\ result = Failure("No sufficiently similar match found")
    /\ previous.result = result

\* ------------------------------------------------------------------------
\* the failure message of strategies constructed with the thresholds 0.505
\* and 1.0
\* ------------------------------------------------------------------------
DiagThresholds == {<<101, 200>>, One}
DiagLineSet == {<<"a", "a">>, <<"a", "b">>}
DiagDocs == SeqsUpTo(DiagLineSet, MaxDiagLines) \ {<<>>}
DiagSearchBlocks == {<<<<"a", "a">>>>, <<<<"b", "b">>>>}
DiagReplaceBlocks == {<<<<"x">>>>}
DiagHints == {Undefined} \cup {<<n>> : n \in 1..MaxDiagLines}

\* new SearchReplaceDiffStrategy(fuzzyThreshold)
InitDiag ==
    /\ fuzzyThreshold \in DiagThresholds
    /\ bufferLines = BUFFER_LINES
    /\ Idle
    /\ SimIdle
    /\ LnIdle
    /\ LevIdle
    /\ previous = NoPrevious
    /\ ToolIdle

CallDiag ==
    /\ pc = "idle"
    /\ \E doc \in DiagDocs, sb \in DiagSearchBlocks, rb \in DiagReplaceBlocks,
          sl \in DiagHints, el \in DiagHints : ApplyDiff(doc, sb, rb, sl, el)

NextDiag ==
    \/ CallDiag
    \/ ScanStep
    \/ Finish
    \/ Return

SpecDiag == InitDiag /\ [][NextDiag]_vars

\* C25: below-threshold diagnostics.  The message of a no-sufficient-match
\* failure is built from the similarity, the threshold, the numbered SEARCH
\* content, a best-match section and an excerpt of the original, and the
\* percentage of the similarity is strictly lower than the percentage of
\* the threshold.
C25_Diagnostics ==
    FailedWith("No sufficiently similar match found") =>
        /\ details.kind = "diagnostics"
        /\ details.searchContent # <<>>
        /\ details.bestMatch # <<>>
        /\ details.originalContent # <<>>
        /\ details.similarity < details.threshold

\* ------------------------------------------------------------------------
\* the progress of the middle-out loop
\* ------------------------------------------------------------------------
\* no index occurs twice in the sequence
NoDuplicates(q) == \A j, k \in 1..Len(q) : q[j] = q[k] => j = k

\* what the iterations run so far have moved: the left index has gone down
\* from the midpoint and the right index up from the midpoint + 1 by as
\* many steps as there are probes, and neither has left the window by more
\* than one step
ScanProgress ==
    LET midPoint == MidPoint(searchStartIndex, searchEndIndex)
    IN /\ leftIndex <= midPoint /\ rightIndex >= midPoint + 1
       /\ Len(probes) = (midPoint - leftIndex) + (rightIndex - (midPoint + 1))
       /\ leftIndex >= searchStartIndex - 1
       /\ rightIndex <= Max(midPoint + 1, searchEndIndex - Len(searchLines) + 1)
       /\ Len(probes) <= searchEndIndex - searchStartIndex + 1

\* the iteration that is about to run moves the left or the right index
IterationMoves ==
    \/ leftIndex >= searchStartIndex
    \/ rightIndex <= searchEndIndex - Len(searchLines)

\* C27: scan termination.  Every iteration of the middle-out loop moves the
\* left or the right index, no start index is probed twice, and the number
\* of iterations run is bounded by the size of the window: the indices only
\* move outwards, one step per probe, and leave the window by one step at most.
C27_ScanTerminates ==
    /\ pc = "scan" => IterationMoves
    /\ (pc = "scan" \/ Scanned) => ScanProgress
    /\ NoDuplicates(probes)

\* the end of a scan for a SEARCH block longer than the window of one line:
\* the only probe is the left probe at the start of the window
C27_Witness ==
    /\ pc = "finish"
    /\ bufferLines = 0
    /\ Len(searchLines) = 2
    /\ searchStartIndex = 1 /\ searchEndIndex = 2
    /\ probes = <<1>>

\* the end of a scan for an empty SEARCH block over a document of four lines
C27_WitnessEmpty ==
    /\ pc = "finish"
    /\ Len(searchLines) = 0
    /\ Len(originalLines) = 4
    /\ Len(probes) = 5

\* C28: candidates are full-length and inside the window.  Every start index
\* the scan has probed, and so the match it accepts, is an index i with
\* searchStartIndex <= i and i + searchLines.length <= searchEndIndex, and
\* searchEndIndex is at most the number of lines of the document.
C28_CandidatesInsideWindow ==
    (pc \in {"scan", "finish", "done"} /\ probes # <<>>) =>
        /\ searchEndIndex <= Len(originalLines)
        /\ \A k \in 1..Len(probes) :
              /\ searchStartIndex <= probes[k]
              /\ probes[k] + Len(searchLines) <= searchEndIndex
        /\ matchIndex # -1 =>
              /\ searchStartIndex <= matchIndex
              /\ matchIndex + Len(searchLines) <= searchEndIndex

\* the lines the splice removes: searchLines.length lines from matchIndex on
ReplacedChunk == ChunkAt(originalLines, matchIndex, Len(searchLines))

\* C29: exactness at the default threshold.  With the threshold 1.0 a
\* success replaces a chunk that equals the SEARCH block after every run of
\* whitespace is collapsed to one space and the ends are trimmed.
C29_ExactAtDefault ==
    (Succeeded /\ fuzzyThreshold = One) =>
        normalizeStr(ReplacedChunk) = normalizeStr(Join(searchLines, <<NL>>))

\* ------------------------------------------------------------------------
\* levenshteinDistance called on its own, on all strings of a bounded length
\* ------------------------------------------------------------------------
LevAlphabet == {"a", "b"}
LevStrings == SeqsUpTo(LevAlphabet, MaxEditLen)

LevenshteinDistanceCall(a, b) ==
    /\ levA' = a
    /\ levB' = b
    /\ levReturned' = TRUE
    /\ levDistance' = levenshteinDistance(a, b)
    /\ UNCHANGED <<config, pc, args, locals, probes, result, details, previous,
                   simVars, lnVars, toolVars>>

\* the caller takes the distance
LevenshteinDistanceReturn ==
    /\ levReturned
    /\ levA' = <<>> /\ levB' = <<>>
    /\ levReturned' = FALSE
    /\ levDistance' = 0
    /\ UNCHANGED <<config, pc, args, locals, probes, result, details, previous,
                   simVars, lnVars, toolVars>>

LevCall ==
    /\ ~levReturned
    /\ \E a \in LevStrings, b \in LevStrings : LevenshteinDistanceCall(a, b)

NextLev == LevCall \/ LevenshteinDistanceReturn

SpecLev == InitDefault /\ [][NextLev]_vars

\* the strings one single-character edit away from str: a deletion, a
\* substitution, or an insertion that keeps the length within the bound
Edits(str) ==
    {SubSeq(str, 1, i - 1) \o SubSeq(str, i + 1, Len(str)) : i \in 1..Len(str)}
    \cup {SubSeq(str, 1, i - 1) \o <<c>> \o SubSeq(str, i + 1, Len(str)) :
             i \in 1..Len(str), c \in LevAlphabet}
    \cup (IF Len(str) < MaxEditLen
          THEN {SubSeq(str, 1, i) \o <<c>> \o SubSeq(str, i + 1, Len(str)) :
                  i \in 0..Len(str), c \in LevAlphabet}
          ELSE {})

RECURSIVE EditsToReach(_, _, _)
\* the least number of edits after which target is among the strings
\* reached from the set reached with k edits
EditsToReach(reached, target, k) ==
    IF target \in reached THEN k
    ELSE EditsToReach(reached \cup UNION {Edits(str) : str \in reached}, target, k + 1)

\* the minimum number of single-character edits that turn a into b
MinimumEdits(a, b) == EditsToReach({a}, b, 0)

\* C30: edit distance correctness.  levenshteinDistance(a, b) is the minimum
\* number of single-character insertions, deletions and substitutions that
\* turn a into b; it is 0 exactly when a = b, the length of the other string
\* when one is empty, and at most the length of the longer string.
C30_EditDistance ==
    levReturned =>
        /\ levDistance = MinimumEdits(levA, levB)
        /\ (levDistance = 0) <=> (levA = levB)
        /\ levA = <<>> => levDistance = Len(levB)
        /\ levB = <<>> => levDistance = Len(levA)
        /\ levDistance <= Max(Len(levA), Len(levB))

\* 'aab' and 'ba': one substitution and one deletion
C30_Witness ==
    /\ levReturned
    /\ levA = <<"a", "a", "b">>
    /\ levB = <<"b", "a">>
    /\ levDistance = 2

====
